---- MODULE Spec2Model ----
(***************************************************************************)
(* A model of the EQ2 spawn tracker bot (src/bot.py): the JSON store of    *)
(* per-guild records, the command handlers that read-modify-write one      *)
(* guild's record, the auto-learning of the respawn window from the TOD    *)
(* history, the status line, and the periodic status board task.           *)
(*                                                                         *)
(* Representation.                                                         *)
(*   - A name is a sequence of one-character strings.                      *)
(*   - None is the empty sequence <<>>, a present value v is <<v>>.        *)
(*   - An aware datetime in America/New_York is [d, h, m, fold]: day of    *)
(*     2025 counted from October 31 (day 1 is November 1), hour, minute,   *)
(*     fold.  Its isoformat() string is the                                *)
(*     record [d, h, m, off] with off the hours west of UTC (4 for         *)
(*     "-04:00", 5 for "-05:00"); string order of two such strings is the  *)
(*     lexicographic order of (d, h, m, off).                              *)
(*   - Hours of a window are kept in hundredths (11.4 h is 1140).          *)
(***************************************************************************)
EXTENDS Integers, Sequences, FiniteSets, TLC

VARIABLES
    store,      \* mobs_data.json: guild id -> guild record (absent: no key)
    reply,      \* what the last handler sent back with ctx.send
    ncmd,       \* commands handled so far
    clock,      \* the last reading of now_local()
    tick,       \* the running update_status_messages task, or idle
    board,      \* per guild, the ids of the messages present in its channel
    nextMsg,    \* next message id Discord hands out
    calls       \* the tasks of the command handlers started, each at its position

vars == <<store, reply, ncmd, clock, tick, board, nextMsg, calls>>

(***************************************************************************)
(* Bounds of the model.                                                    *)
(***************************************************************************)
MaxCmds == 3
MaxHistCmds == 5
MaxTickCmds == 3
MaxMsgs == 2
MaxNameCmds == 9
MaxParseCmds == 2

(***************************************************************************)
(* Program constants.                                                      *)
(***************************************************************************)
HistoryCap == 10
CloseN == 3
CutoffNum == 6
CutoffDen == 10
NoiseHundredths == 25
LowMarginPct == 95
HighMarginPct == 105
TrimAt == 4
MediumAt == 3
HighAt == 6

None == <<>>
Some(v) == <<v>>
IsNone(o) == o = <<>>
Val(o) == o[1]

\* ------------------------------------------------------------------ names

Lower(c) ==
    CASE c = "A" -> "a"
      [] c = "B" -> "b"
      [] c = "D" -> "d"
      [] c = "X" -> "x"
      [] OTHER -> c

\* ord(c) of the characters the model's names use
Ord(c) ==
    CASE c = " " -> 32
      [] c = "A" -> 65
      [] c = "B" -> 66
      [] c = "D" -> 68
      [] c = "X" -> 88
      [] c = "a" -> 97
      [] c = "b" -> 98
      [] c = "c" -> 99
      [] c = "d" -> 100
      [] c = "e" -> 101
      [] c = "x" -> 120
      [] c = "y" -> 121
      [] c = "z" -> 122

RECURSIVE LStrip(_)
LStrip(s) == IF s # <<>> /\ Head(s) = " " THEN LStrip(Tail(s)) ELSE s

RECURSIVE RStrip(_)
RStrip(s) ==
    IF s # <<>> /\ s[Len(s)] = " " THEN RStrip(SubSeq(s, 1, Len(s) - 1)) ELSE s

\* str.strip()
Strip(s) == RStrip(LStrip(s))

\* str.lower()
LowerStr(s) == [i \in 1..Len(s) |-> Lower(s[i])]

normalize_mob_name(name) == LowerStr(Strip(name))

\* Python's s < t on strings
RECURSIVE StrLess(_, _)
StrLess(s, t) ==
    IF t = <<>> THEN FALSE
    ELSE IF s = <<>> THEN TRUE
    ELSE IF Ord(Head(s)) # Ord(Head(t)) THEN Ord(Head(s)) < Ord(Head(t))
    ELSE StrLess(Tail(s), Tail(t))

\* -------------------------------------------------- difflib (standard library)

\* length of the common run of a and b starting at a[i], b[j] (1-based,
\* below ahi and bhi)
RECURSIVE CommonLen(_, _, _, _, _, _)
CommonLen(a, b, i, j, ahi, bhi) ==
    IF i < ahi /\ j < bhi /\ a[i] = b[j]
    THEN 1 + CommonLen(a, b, i + 1, j + 1, ahi, bhi)
    ELSE 0

\* of the blocks <<i, j, size>>: the longest, of those the one starting
\* earliest in a, of those the one earliest in b
LongestBlock(cand) ==
    CHOOSE x \in cand : \A y \in cand \ {x} :
        \/ x[3] > y[3]
        \/ x[3] = y[3] /\ x[1] < y[1]
        \/ x[3] = y[3] /\ x[1] = y[1] /\ x[2] < y[2]

\* SequenceMatcher.find_longest_match (no junk: the keys are short)
find_longest_match(a, b, alo, ahi, blo, bhi) ==
    LongestBlock({ <<i, j, CommonLen(a, b, i, j, ahi, bhi)>> :
                       i \in alo..(ahi - 1), j \in blo..(bhi - 1) })

\* sum of the sizes of SequenceMatcher.get_matching_blocks(): the longest
\* block, then the same to its left and to its right
RECURSIVE MatchCount(_, _, _, _, _, _)
RECURSIVE MatchAround(_, _, _, _, _, _, _)
MatchCount(a, b, alo, ahi, blo, bhi) ==
    IF alo >= ahi \/ blo >= bhi THEN 0
    ELSE MatchAround(a, b, alo, ahi, blo, bhi, find_longest_match(a, b, alo, ahi, blo, bhi))

MatchAround(a, b, alo, ahi, blo, bhi, x) ==
    IF x[3] = 0 THEN 0
    ELSE x[3] + MatchCount(a, b, alo, x[1], blo, x[2])
              + MatchCount(a, b, x[1] + x[3], ahi, x[2] + x[3], bhi)

\* SequenceMatcher(None, a, b).ratio() as the fraction <<num, den>>
Ratio(a, b) ==
    IF Len(a) + Len(b) = 0 THEN <<1, 1>>
    ELSE <<2 * MatchCount(a, b, 1, Len(a) + 1, 1, Len(b) + 1), Len(a) + Len(b)>>

RatioLess(r, s) == r[1] * s[2] < s[1] * r[2]

\* heapq.nlargest(n, result) of (score, x) pairs, as the list of the x:
\* best score first, equal scores by the greater string
NLargest(n, result) ==
    LET Better(s, t) == \/ RatioLess(t[1], s[1])
                        \/ ~RatioLess(t[1], s[1]) /\ ~RatioLess(s[1], t[1])
                           /\ StrLess(t[2], s[2])
        rank(s) == Cardinality({ t \in result : Better(t, s) })
    IN  [r \in 1..(IF Cardinality(result) < n THEN Cardinality(result) ELSE n) |->
            (CHOOSE s \in result : rank(s) = r - 1)[2]]

\* get_close_matches(word, possibilities, n, cutoff), the cutoff a fraction
get_close_matches(word, possibilities, n, cutoffNum, cutoffDen) ==
    NLargest(n, { s \in { <<Ratio(x, word), x>> : x \in possibilities } :
                      s[1][1] * cutoffDen >= cutoffNum * s[1][2] })

\* ------------------------------------------------------------ fuzzy match

\* a fault for fuzzy_find_mob: the best match is taken although there are
\* several
FuzzyCloseFirst(close) ==
    IF Len(close) >= 1 THEN [kind |-> "str", key |-> close[1], close |-> <<>>]
    ELSE [kind |-> "none", key |-> <<>>, close |-> <<>>]

\* what fuzzy_find_mob makes of the close matches
FuzzyClose(close) ==
    IF Len(close) = 1 THEN [kind |-> "str", key |-> close[1], close |-> <<>>]
    ELSE IF Len(close) > 1 THEN [kind |-> "list", key |-> <<>>, close |-> close]
    ELSE [kind |-> "none", key |-> <<>>, close |-> <<>>]

\* a fault for fuzzy_find_mob: the test "name in mobs" is left out
FuzzyKeyNoExact(nm, mobs) ==
    FuzzyClose(get_close_matches(nm, DOMAIN mobs, CloseN, CutoffNum, CutoffDen))

FuzzyKey(nm, mobs) ==
    IF nm \in DOMAIN mobs THEN [kind |-> "str", key |-> nm, close |-> <<>>]
    ELSE FuzzyClose(get_close_matches(nm, DOMAIN mobs, CloseN, CutoffNum, CutoffDen))

\* fuzzy_find_mob: kind "str" (a key), "list" (ambiguous) or "none"
fuzzy_find_mob(name, mobs) == FuzzyKey(Strip(LowerStr(name)), mobs)

\* --------------------------------------------------------------- datetime

\* the day daylight time starts in 2025, March 9, counted like the other
\* days from October 31 (day 0)
SpringDay == -236

\* utcoffset() of TIMEZONE for a wall time of 2025, in hours west of UTC.
\* Days are counted from October 31 (day 0; day 1 is November 1, day -1
\* October 30).  Daylight time starts on March 9 at 02:00: 02:00-02:59 of
\* that day does not exist, fold 0 reads it with the offset from before
\* (-05:00), fold 1 with the one from after.  It ends on November 2 at
\* 02:00, so 01:00-01:59 of that day happens twice (fold 0: -04:00, fold 1:
\* -05:00)
UtcOffset(d, h, fold) ==
    IF d < SpringDay THEN 5
    ELSE IF d = SpringDay
    THEN (IF h < 2 THEN 5 ELSE IF h = 2 THEN (IF fold = 0 THEN 5 ELSE 4) ELSE 4)
    ELSE IF d < 2 THEN 4
    ELSE IF d > 2 THEN 5
    ELSE IF h < 1 THEN 4
    ELSE IF h = 1 THEN (IF fold = 0 THEN 4 ELSE 5)
    ELSE 5

\* datetime.isoformat() of an aware datetime
isoformat(dt) == [d |-> dt.d, h |-> dt.h, m |-> dt.m, off |-> UtcOffset(dt.d, dt.h, dt.fold)]

\* s < t on two isoformat() strings
IsoLess(s, t) ==
    \/ s.d < t.d
    \/ s.d = t.d /\ s.h < t.h
    \/ s.d = t.d /\ s.h = t.h /\ s.m < t.m
    \/ s.d = t.d /\ s.h = t.h /\ s.m = t.m /\ s.off < t.off

\* sorted() of a list of isoformat() strings
SortedIso(h) == SortSeq(h, IsoLess)

\* datetime.fromisoformat(s) as an instant: minutes of UTC since the start
\* of October 31, 2025
Instant(s) == ((s.d * 24 + s.h + s.off) * 60) + s.m

\* a < b on two aware datetimes of the same tzinfo: the wall times compare
WallLess(a, b) ==
    \/ a.d < b.d
    \/ a.d = b.d /\ a.h < b.h
    \/ a.d = b.d /\ a.h = b.h /\ a.m < b.m

IsDigit(c) == c \in {"0", "1", "2", "3", "4", "5", "6", "7", "8", "9"}

DigitVal(c) ==
    CASE c = "0" -> 0 [] c = "1" -> 1 [] c = "2" -> 2 [] c = "3" -> 3
      [] c = "4" -> 4 [] c = "5" -> 5 [] c = "6" -> 6 [] c = "7" -> 7
      [] c = "8" -> 8 [] c = "9" -> 9

\* int(s) of a string of digits
RECURSIVE IntOf(_)
IntOf(s) == IF s = <<>> THEN 0 ELSE 10 * IntOf(SubSeq(s, 1, Len(s) - 1)) + DigitVal(s[Len(s)])

\* looks_like_time(tok)
looks_like_time(tok) == (\A i \in 1..Len(tok) : IsDigit(tok[i])) /\ Len(tok) \in {3, 4}

\* the most recent hour:minute at the clock reading now, or the one of for_date
TimeOn(hour, minute, for_date, now) ==
    IF ~(0 <= hour /\ hour <= 23 /\ 0 <= minute /\ minute <= 59)
    THEN [ok |-> FALSE, dt |-> now]
    ELSE IF ~IsNone(for_date)
    THEN [ok |-> TRUE, dt |-> [d |-> Val(for_date), h |-> hour, m |-> minute, fold |-> 0]]
    ELSE IF WallLess(now, [d |-> now.d, h |-> hour, m |-> minute])
    THEN [ok |-> TRUE, dt |-> [d |-> now.d - 1, h |-> hour, m |-> minute, fold |-> 0]]
    ELSE [ok |-> TRUE, dt |-> [d |-> now.d, h |-> hour, m |-> minute, fold |-> now.fold]]

ParseDigits(s, for_date, now) ==
    IF ~((\A i \in 1..Len(s) : IsDigit(s[i])) /\ Len(s) \in {3, 4})
    THEN [ok |-> FALSE, dt |-> now]
    ELSE IF Len(s) = 3
    THEN TimeOn(IntOf(SubSeq(s, 1, 1)), IntOf(SubSeq(s, 2, 3)), for_date, now)
    ELSE TimeOn(IntOf(SubSeq(s, 1, 2)), IntOf(SubSeq(s, 3, 4)), for_date, now)

\* parse_time_str(time_str, for_date) read at the clock reading now:
\* [ok |-> FALSE] for ValueError, else the datetime
parse_time_str(time_str, for_date, now) == ParseDigits(Strip(time_str), for_date, now)

\* ------------------------------------------------------- window learning

\* round(num / den) to the nearest integer, halves to the even one
RoundDiv(num, den) ==
    IF 2 * (num % den) < den THEN num \div den
    ELSE IF 2 * (num % den) > den THEN (num \div den) + 1
    ELSE IF (num \div den) % 2 = 0 THEN num \div den ELSE (num \div den) + 1

InstantLess(s, t) == Instant(s) < Instant(t)

\* the gaps, in minutes, between consecutive times that exceed 0.25 h
RECURSIVE UsableGaps(_)
UsableGaps(times) ==
    IF Len(times) < 2 THEN <<>>
    ELSE (IF (Instant(times[2]) - Instant(times[1])) * 100 > NoiseHundredths * 60
          THEN <<Instant(times[2]) - Instant(times[1])>> ELSE <<>>)
         \o UsableGaps(Tail(times))

IntLess(a, b) == a < b

\* conf of n usable gaps
Confidence(n) == IF n < MediumAt THEN "LOW" ELSE IF n < HighAt THEN "MEDIUM" ELSE "HIGH"

\* a fault for the learner: three gaps are trimmed too
TrimmedFromThree(intervals) ==
    IF Len(intervals) >= 3 THEN SubSeq(intervals, 2, Len(intervals) - 1) ELSE intervals

\* intervals[1:-1] if len(intervals) >= 4 else intervals
Trimmed(intervals) ==
    IF Len(intervals) >= TrimAt THEN SubSeq(intervals, 2, Len(intervals) - 1) ELSE intervals

\* the early return of the learner: only the confidence is written
NotLearned(mob_data) ==
    [mob |-> [mob_data EXCEPT !.learned_confidence = "LOW"],
     min_h |-> None, max_h |-> None, conf |-> "LOW"]

\* the window (hundredths of hours) from the trimmed gaps (minutes)
Learned(mob_data, n, trimmed) ==
    [mob |-> [mob_data EXCEPT
                !.min_respawn_hours = Some(RoundDiv(trimmed[1] * LowMarginPct, 60)),
                !.max_respawn_hours = Some(RoundDiv(trimmed[Len(trimmed)] * HighMarginPct, 60)),
                !.learned_confidence = Confidence(n)],
     min_h |-> Some(RoundDiv(trimmed[1] * LowMarginPct, 60)),
     max_h |-> Some(RoundDiv(trimmed[Len(trimmed)] * HighMarginPct, 60)),
     conf |-> Confidence(n)]

\* a fault for the learner: the gaps are counted after the trimming
LearnFromTrimmed(mob_data, intervals) ==
    IF intervals = <<>> THEN NotLearned(mob_data)
    ELSE Learned(mob_data, Len(Trimmed(intervals)), Trimmed(intervals))

LearnFrom(mob_data, intervals) ==
    IF intervals = <<>> THEN NotLearned(mob_data)
    ELSE Learned(mob_data, Len(intervals), Trimmed(intervals))

\* update_window_from_tod_history(mob_data): the mob record as the call
\* leaves it, and the tuple it returns
update_window_from_tod_history(mob_data) ==
    IF Len(mob_data.tod_history) < 2 THEN NotLearned(mob_data)
    ELSE LearnFrom(mob_data,
             SortSeq(UsableGaps(SortSeq(mob_data.tod_history, InstantLess)), IntLess))

\* ------------------------------------------------------------ status line

\* format_timedelta(delta), delta in seconds: the parts of "Xh Ym"
FormatParts(hours, minutes) ==
    IF hours # 0
    THEN (IF minutes # 0 THEN <<[n |-> hours, u |-> "h"], [n |-> minutes, u |-> "m"]>>
          ELSE <<[n |-> hours, u |-> "h"]>>)
    ELSE <<[n |-> minutes, u |-> "m"]>>

format_timedelta(delta) ==
    IF delta < 0 THEN FormatParts((-delta) \div 3600, ((-delta) % 3600) \div 60)
    ELSE FormatParts(delta \div 3600, (delta % 3600) \div 60)

StatusLine(kind, mob_data, delta) ==
    [kind |-> kind, name |-> mob_data.display_name, delta |-> delta,
     conf |-> mob_data.learned_confidence]

\* the three lines of a mob with a window, in seconds of UTC
WindowLine(mob_data, nowS, earliest, latest) ==
    IF nowS < earliest THEN StatusLine("CLOSED", mob_data, format_timedelta(earliest - nowS))
    ELSE IF earliest <= nowS /\ nowS <= latest
    THEN StatusLine("OPEN", mob_data, format_timedelta(latest - nowS))
    ELSE StatusLine("OVERDUE", mob_data, format_timedelta(nowS - latest))

\* a fault for the reference: last_spawn if set, else last_death
BaseTimeSpawnFirst(mob_data) ==
    IF ~IsNone(mob_data.last_spawn) THEN mob_data.last_spawn ELSE mob_data.last_death

\* last_death if set, else last_spawn
BaseTime(mob_data) ==
    IF ~IsNone(mob_data.last_death) THEN mob_data.last_death ELSE mob_data.last_spawn

\* mob_status_line(mob_key, mob_data, now): which line is built, and the
\* duration it shows
mob_status_line(mob_key, mob_data, now) ==
    IF ~mob_data.tracking THEN StatusLine("OFF", mob_data, <<>>)
    ELSE IF IsNone(mob_data.min_respawn_hours) \/ IsNone(mob_data.max_respawn_hours)
    THEN StatusLine("NO_WINDOW", mob_data, <<>>)
    ELSE IF IsNone(BaseTime(mob_data)) THEN StatusLine("NO_REFERENCE", mob_data, <<>>)
    ELSE WindowLine(mob_data, Instant(isoformat(now)) * 60,
             Instant(Val(BaseTime(mob_data))) * 60 + Val(mob_data.min_respawn_hours) * 36,
             Instant(Val(BaseTime(mob_data))) * 60 + Val(mob_data.max_respawn_hours) * 36)

\* ------------------------------------------------------------------ store

Put(f, k, v) == [x \in DOMAIN f \cup {k} |-> IF x = k THEN v ELSE f[x]]
Del(f, k) == [x \in DOMAIN f \ {k} |-> f[x]]

\* load_data(): the file's content (a missing file reads as {})
load_data(file) == file

DefaultGuild == [status_channel_id |-> None, status_message_id |-> None, mobs |-> <<>>]

\* get_guild_data(guild_id): the file as the call leaves it; the block it
\* returns is the file's entry for the guild
get_guild_data(file, gid) ==
    IF gid \notin DOMAIN load_data(file) THEN Put(load_data(file), gid, DefaultGuild)
    ELSE load_data(file)

\* a fault for the save: the block is written for every guild of the file
UpdateEveryGuild(file, gid, gdata) ==
    [g \in DOMAIN load_data(file) \cup {gid} |-> gdata]

\* update_guild_data(guild_id, gdata): the file as the call leaves it
update_guild_data(file, gid, gdata) == Put(load_data(file), gid, gdata)

\* the file after a handler has changed the mobs of the block it loaded
SaveMobs(data, gid, mobs) == update_guild_data(data, gid, [data[gid] EXCEPT !.mobs = mobs])

\* the entry every creating command writes for a new mob
NewMob(mob_name, min_h, max_h) ==
    [display_name |-> mob_name, tracking |-> TRUE,
     min_respawn_hours |-> min_h, max_respawn_hours |-> max_h,
     last_death |-> None, last_spawn |-> None,
     tod_history |-> <<>>, learned_confidence |-> "LOW"]

\* mobs[key] after "if key not in mobs: mobs[key] = {...}"
MobOrNew(mobs, key, mob_name) ==
    IF key \in DOMAIN mobs THEN mobs[key] ELSE NewMob(mob_name, None, None)

\* the name resolution every command starts with: whether the match is
\* ambiguous, the candidates, and the key the command goes on with
ResolveKey(raw_key, fuzzy) ==
    [ambiguous |-> fuzzy.kind = "list",
     close |-> fuzzy.close,
     key |-> IF fuzzy.kind = "str" THEN fuzzy.key ELSE raw_key]

ResolveRaw(raw_key, mobs) == ResolveKey(raw_key, fuzzy_find_mob(raw_key, mobs))

Resolve(mob_name, mobs) == ResolveRaw(normalize_mob_name(mob_name), mobs)

Reply(cmd, kind) == [cmd |-> cmd, kind |-> kind, names |-> <<>>]

\* a handler that returns before it loads the file
Rejected(file, cmd, kind) == [file |-> file, reply |-> Reply(cmd, kind)]

\* the "ambiguous" return: the candidates' display names are sent, the file
\* is as get_guild_data left it
Ambiguous(data, gid, cmd, close) ==
    [file |-> data,
     reply |-> [cmd |-> cmd, kind |-> "ambiguous",
                names |-> [i \in 1..Len(close) |-> data[gid].mobs[close[i]].display_name]]]

\* --------------------------------------------------------------- commands
\* Each XxxResult is the handler run on the file: the file it leaves and the
\* message it sends.  No handler awaits between get_guild_data and
\* update_guild_data, so a handler is one step.

\* sorted(history)[-10:]
KeepLast(history) ==
    IF Len(history) > HistoryCap
    THEN SubSeq(history, Len(history) - HistoryCap + 1, Len(history))
    ELSE history

\* the TOD history after appending tod_time
TodHistory(history, tod_time) == KeepLast(SortedIso(Append(history, tod_time)))

\* the mob after tod has written the name, the death and the history
TodMob(mob, mob_name, tod_time) ==
    [mob EXCEPT !.display_name = mob_name,
                !.last_death = Some(tod_time),
                !.tod_history = TodHistory(@, tod_time)]

TodSave(data, gid, key, learned) ==
    [file |-> SaveMobs(data, gid, Put(data[gid].mobs, key, learned.mob)),
     reply |-> Reply("tod", IF IsNone(learned.min_h) THEN "recorded" ELSE "recorded_learned")]

TodOn(data, gid, mob_name, tod_time, r) ==
    IF r.ambiguous THEN Ambiguous(data, gid, "tod", r.close)
    ELSE TodSave(data, gid, r.key,
             update_window_from_tod_history(
                 TodMob(MobOrNew(data[gid].mobs, r.key, mob_name), mob_name, tod_time)))

TodIn(data, gid, mob_name, tod_time) ==
    TodOn(data, gid, mob_name, tod_time, Resolve(mob_name, data[gid].mobs))

TodAt(file, gid, mob_name, parsed) ==
    IF ~parsed.ok THEN Rejected(file, "tod", "invalid_time")
    ELSE TodIn(get_guild_data(file, gid), gid, mob_name, isoformat(parsed.dt))

\* tod on the mob name, the date and the time token of the message (None
\* when the message has none), at the clock reading now
todResult(file, gid, name, date_obj, time_token, now) ==
    IF Strip(name) = <<>> THEN Rejected(file, "tod", "no_name")
    ELSE IF ~IsNone(date_obj) /\ IsNone(time_token)
    THEN Rejected(file, "tod", "date_without_time")
    ELSE TodAt(file, gid, Strip(name),
             IF IsNone(time_token) THEN [ok |-> TRUE, dt |-> now]
             ELSE parse_time_str(Val(time_token), date_obj, now))

SpawnMob(mob, mob_name, spawn_time) ==
    [mob EXCEPT !.display_name = mob_name, !.last_spawn = Some(spawn_time)]

SpawnOn(data, gid, mob_name, spawn_time, r) ==
    IF r.ambiguous THEN Ambiguous(data, gid, "spawn", r.close)
    ELSE [file |-> SaveMobs(data, gid, Put(data[gid].mobs, r.key,
                       SpawnMob(MobOrNew(data[gid].mobs, r.key, mob_name), mob_name, spawn_time))),
          reply |-> Reply("spawn", "recorded")]

SpawnIn(data, gid, mob_name, spawn_time) ==
    SpawnOn(data, gid, mob_name, spawn_time, Resolve(mob_name, data[gid].mobs))

SpawnAt(file, gid, mob_name, parsed) ==
    IF ~parsed.ok THEN Rejected(file, "spawn", "invalid_time")
    ELSE SpawnIn(get_guild_data(file, gid), gid, mob_name, isoformat(parsed.dt))

spawnResult(file, gid, name, time_token, now) ==
    IF Strip(name) = <<>> THEN Rejected(file, "spawn", "usage")
    ELSE SpawnAt(file, gid, Strip(name),
             IF IsNone(time_token) THEN [ok |-> TRUE, dt |-> now]
             ELSE parse_time_str(Val(time_token), None, now))

\* a fault for track: the entry is written anew for a mob that exists too
TrackMobAnew(mobs, key, mob_name) == NewMob(mob_name, None, None)

TrackMob(mobs, key, mob_name) ==
    IF key \notin DOMAIN mobs THEN NewMob(mob_name, None, None)
    ELSE [mobs[key] EXCEPT !.display_name = mob_name, !.tracking = TRUE]

TrackOn(data, gid, mob_name, r) ==
    IF r.ambiguous THEN Ambiguous(data, gid, "track", r.close)
    ELSE [file |-> SaveMobs(data, gid, Put(data[gid].mobs, r.key,
                       TrackMob(data[gid].mobs, r.key, mob_name))),
          reply |-> Reply("track", "enabled")]

TrackIn(data, gid, mob_name) == TrackOn(data, gid, mob_name, Resolve(mob_name, data[gid].mobs))

trackResult(file, gid, mob_name) == TrackIn(get_guild_data(file, gid), gid, mob_name)

\* a fault for untrack: a name that is not found is entered as a new mob
\* with tracking off
UntrackOnCreates(data, gid, r) ==
    IF r.ambiguous THEN Ambiguous(data, gid, "untrack", r.close)
    ELSE [file |-> SaveMobs(data, gid, Put(data[gid].mobs, r.key,
                       [MobOrNew(data[gid].mobs, r.key, r.key) EXCEPT !.tracking = FALSE])),
          reply |-> Reply("untrack", "disabled")]

UntrackOn(data, gid, r) ==
    IF r.ambiguous THEN Ambiguous(data, gid, "untrack", r.close)
    ELSE IF r.key \notin DOMAIN data[gid].mobs
    THEN [file |-> data, reply |-> Reply("untrack", "not_found")]
    ELSE [file |-> SaveMobs(data, gid, Put(data[gid].mobs, r.key,
                       [data[gid].mobs[r.key] EXCEPT !.tracking = FALSE])),
          reply |-> Reply("untrack", "disabled")]

UntrackIn(data, gid, mob_name) == UntrackOn(data, gid, Resolve(mob_name, data[gid].mobs))

untrackResult(file, gid, mob_name) == UntrackIn(get_guild_data(file, gid), gid, mob_name)

DeletemobOn(data, gid, r) ==
    IF r.ambiguous THEN Ambiguous(data, gid, "deletemob", r.close)
    ELSE IF r.key \notin DOMAIN data[gid].mobs
    THEN [file |-> data, reply |-> Reply("deletemob", "not_found")]
    ELSE [file |-> SaveMobs(data, gid, Del(data[gid].mobs, r.key)),
          reply |-> Reply("deletemob", "deleted")]

DeletemobIn(data, gid, mob_name) == DeletemobOn(data, gid, Resolve(mob_name, data[gid].mobs))

deletemobResult(file, gid, mob_name) == DeletemobIn(get_guild_data(file, gid), gid, mob_name)

\* the mob map after mobs.pop(old_key) and mobs[new_key] = mob
MoveMob(mobs, old_key, new_key, new_name) ==
    Put(Del(mobs, old_key), new_key, [mobs[old_key] EXCEPT !.display_name = new_name])

\* a fault for renamemob: the test "new_key != old_key" is left out
RenameRefusedAny(mobs, old_key, new_key) == new_key \in DOMAIN mobs

\* whether renamemob refuses the new key
RenameRefused(mobs, old_key, new_key) == new_key \in DOMAIN mobs /\ new_key # old_key

RenamemobOn(data, gid, new_name, r) ==
    IF r.ambiguous THEN Ambiguous(data, gid, "renamemob", r.close)
    ELSE IF r.key \notin DOMAIN data[gid].mobs
    THEN [file |-> data, reply |-> Reply("renamemob", "not_found")]
    ELSE IF RenameRefused(data[gid].mobs, r.key, normalize_mob_name(new_name))
    THEN [file |-> data, reply |-> Reply("renamemob", "exists")]
    ELSE [file |-> SaveMobs(data, gid,
                       MoveMob(data[gid].mobs, r.key, normalize_mob_name(new_name), new_name)),
          reply |-> Reply("renamemob", "renamed")]

RenamemobIn(data, gid, old_name, new_name) ==
    RenamemobOn(data, gid, new_name, Resolve(old_name, data[gid].mobs))

\* renamemob on "old | new" (a message without "|" only gets the usage line)
renamemobResult(file, gid, old, new) ==
    RenamemobIn(get_guild_data(file, gid), gid, Strip(old), Strip(new))

\* history.pop()
PopLast(history) == SubSeq(history, 1, Len(history) - 1)

\* a fault for undo: the learner is run whatever is left of the history
UndoPoppedRelearn(mob) == update_window_from_tod_history(mob).mob

\* the mob once undo has removed the last TOD: relearned, or cleared
UndoPopped(mob) ==
    IF Len(mob.tod_history) >= 2 THEN update_window_from_tod_history(mob).mob
    ELSE [mob EXCEPT !.min_respawn_hours = None,
                     !.max_respawn_hours = None,
                     !.learned_confidence = "LOW"]

UndoMob(mob) == UndoPopped([mob EXCEPT !.tod_history = PopLast(@)])

UndoOn(data, gid, r) ==
    IF r.ambiguous THEN Ambiguous(data, gid, "undo", r.close)
    ELSE IF r.key \notin DOMAIN data[gid].mobs
    THEN [file |-> data, reply |-> Reply("undo", "not_found")]
    ELSE IF data[gid].mobs[r.key].tod_history = <<>>
    THEN [file |-> data, reply |-> Reply("undo", "no_history")]
    ELSE [file |-> SaveMobs(data, gid, Put(data[gid].mobs, r.key, UndoMob(data[gid].mobs[r.key]))),
          reply |-> Reply("undo", IF Len(data[gid].mobs[r.key].tod_history) >= 3
                                  THEN "removed_relearned" ELSE "removed_cleared")]

UndoIn(data, gid, mob_name) == UndoOn(data, gid, Resolve(mob_name, data[gid].mobs))

undoResult(file, gid, mob_name) == UndoIn(get_guild_data(file, gid), gid, mob_name)

\* the mob setwindow writes: a new one with the window, or the old one with
\* its window overwritten
SetwindowMob(mobs, key, mob_name, min_h, max_h) ==
    IF key \notin DOMAIN mobs THEN NewMob(mob_name, Some(min_h), Some(max_h))
    ELSE [mobs[key] EXCEPT !.min_respawn_hours = Some(min_h),
                           !.max_respawn_hours = Some(max_h)]

SetwindowOn(data, gid, mob_name, min_h, max_h, r) ==
    IF r.ambiguous THEN Ambiguous(data, gid, "setwindow", r.close)
    ELSE [file |-> SaveMobs(data, gid, Put(data[gid].mobs, r.key,
                       SetwindowMob(data[gid].mobs, r.key, mob_name, min_h, max_h))),
          reply |-> Reply("setwindow", "set")]

SetwindowIn(data, gid, mob_name, min_h, max_h) ==
    SetwindowOn(data, gid, mob_name, min_h, max_h, Resolve(mob_name, data[gid].mobs))

\* setwindow on "name min max": min_tok and max_tok are what float() makes of
\* the last two words, in hundredths, None when it raises ValueError
setwindowResult(file, gid, name, min_tok, max_tok) ==
    IF Strip(name) = <<>> THEN Rejected(file, "setwindow", "usage")
    ELSE IF IsNone(min_tok) \/ IsNone(max_tok) THEN Rejected(file, "setwindow", "not_numbers")
    ELSE SetwindowIn(get_guild_data(file, gid), gid, Strip(name), Val(min_tok), Val(max_tok))

SetstatuschannelIn(data, gid, channel_id) ==
    [file |-> update_guild_data(data, gid,
                  [data[gid] EXCEPT !.status_channel_id = Some(channel_id),
                                    !.status_message_id = None]),
     reply |-> Reply("setstatuschannel", "set")]

\* setstatuschannel by a member with manage_channels (without it the check
\* fails before the handler runs)
setstatuschannelResult(file, gid, channel_id) ==
    SetstatuschannelIn(get_guild_data(file, gid), gid, channel_id)

\* ----------------------------------------------------------------- inputs

Guilds == {1, 2}

abc == <<"a", "b", "c">>
ade == <<"a", "d", "e">>
abe == <<"a", "b", "e">>
xyz == <<"x", "y", "z">>

abd == <<"a", "b", "d">>
abx == <<"a", "b", "x">>
aby == <<"a", "b", "y">>

\* the names typed in commands: two mobs and a name close to both
Names == {abc, ade, abe}

\* the new names typed in renamemob: a taken name, a case/whitespace variant
\* of "abc", and a fresh name
NewNames == {ade, <<" ", "A", "b", "c", " ">>, xyz}

\* names close to one another, and the names looked up among them: a name
\* close to each, one of them, a variant of one of them, and a name close to
\* none
CloseNames == {abc, abd, abe, abx}
Lookups == {aby, abc, <<" ", "A", "b", "c", " ">>, xyz}

\* clock readings: the start of November 1, 01:12 EST of November 2 (the
\* second 01:12 of that day) and 13:12 EST of the same day
Now0 == [d |-> 1, h |-> 0, m |-> 0, fold |-> 0]
Now1 == [d |-> 2, h |-> 1, m |-> 12, fold |-> 1]
Now2 == [d |-> 2, h |-> 13, m |-> 12, fold |-> 0]

T0136 == <<"0", "1", "3", "6">>
T2400 == <<"2", "4", "0", "0">>

T0245 == <<"0", "2", "4", "5">>
T1400 == <<"1", "4", "0", "0">>

\* clock readings of March 9: midnight, and 03:10 EDT, ten minutes after
\* the clocks went from 02:00 to 03:00
Spring0 == [d |-> SpringDay, h |-> 0, m |-> 0, fold |-> 0]
Spring1 == [d |-> SpringDay, h |-> 3, m |-> 10, fold |-> 0]

TodInput(date_obj, time_token, now) == [date |-> date_obj, token |-> time_token, now |-> now]

\* what follows the name in "!tod": nothing, a time, a date and a time, a
\* date alone, a time that is none
TodInputs ==
    {TodInput(None, None, Now1), TodInput(None, None, Now2),
     TodInput(None, Some(T0136), Now1), TodInput(None, Some(T0136), Now2),
     TodInput(Some(2), Some(T0136), Now1),
     TodInput(Some(2), None, Now1), TodInput(None, Some(T2400), Now1)}

\* the times typed after the name, without a date and with one (November 2
\* and 3), at three clock readings
ParseInputs ==
    { TodInput(date_obj, Some(token), now) :
          date_obj \in {None, Some(2), Some(3)},
          token \in {T0136, T0245, T1400},
          now \in {Spring1, Now1, Now2} }

Window(min_tok, max_tok) == [min |-> min_tok, max |-> max_tok]

\* the two numbers of "!setwindow", in hundredths of hours: 8 12, 12 8,
\* 0 8, and a first word that is no number
Windows ==
    {Window(Some(800), Some(1200)), Window(Some(1200), Some(800)),
     Window(Some(0), Some(800)), Window(None, Some(800))}

\* ------------------------------------------------------------------ state

IdleTick == [pc |-> "idle", all_data |-> <<>>, guilds |-> <<>>, now |-> Now1, content |-> <<>>]

NoReply == Reply("none", "none")

\* the bot has just started on an empty mobs_data.json
Init ==
    /\ store = <<>>
    /\ reply = NoReply
    /\ ncmd = 0
    /\ clock = Now0
    /\ tick = IdleTick
    /\ board = [g \in Guilds |-> <<>>]
    /\ nextMsg = 1
    /\ calls = <<>>

\* a handler has run: the file it left, the message it sent
Handled(r) ==
    /\ store' = r.file
    /\ reply' = r.reply
    /\ UNCHANGED <<tick, board, nextMsg, calls>>

tod(gid, name, date_obj, time_token, now) ==
    Handled(todResult(store, gid, name, date_obj, time_token, now))

spawn(gid, name, time_token, now) == Handled(spawnResult(store, gid, name, time_token, now))

track(gid, mob_name) == Handled(trackResult(store, gid, mob_name))

untrack(gid, mob_name) == Handled(untrackResult(store, gid, mob_name))

deletemob(gid, mob_name) == Handled(deletemobResult(store, gid, mob_name))

renamemob(gid, old, new) == Handled(renamemobResult(store, gid, old, new))

undo(gid, mob_name) == Handled(undoResult(store, gid, mob_name))

setwindow(gid, name, min_tok, max_tok) ==
    Handled(setwindowResult(store, gid, name, min_tok, max_tok))

setstatuschannel(gid, channel_id) == Handled(setstatuschannelResult(store, gid, channel_id))

\* the command is one of the max commands a run handles
Budget(max) == ncmd < max /\ ncmd' = ncmd + 1

\* now_local() reads now: the clock does not run backwards
At(now) == Instant(isoformat(clock)) <= Instant(isoformat(now)) /\ clock' = now

\* a handler that reads the clock, and one that does not
Timed(max, now) == Budget(max) /\ At(now)
Untimed(max) == Budget(max) /\ UNCHANGED clock

\* one command of guild gid, its arguments drawn from the given sets
Command(gid, max, N, NN, T, W) ==
    \/ \E name \in N, in \in T :
          Timed(max, in.now) /\ tod(gid, name, in.date, in.token, in.now)
    \/ \E name \in N, in \in T :
          Timed(max, in.now) /\ IsNone(in.date) /\ spawn(gid, name, in.token, in.now)
    \/ \E name \in N : Untimed(max) /\ track(gid, name)
    \/ \E name \in N : Untimed(max) /\ untrack(gid, name)
    \/ \E name \in N : Untimed(max) /\ deletemob(gid, name)
    \/ \E old \in N, new \in NN : Untimed(max) /\ renamemob(gid, old, new)
    \/ \E name \in N : Untimed(max) /\ undo(gid, name)
    \/ \E name \in N, w \in W : Untimed(max) /\ setwindow(gid, name, w.min, w.max)
    \/ Untimed(max) /\ setstatuschannel(gid, gid)

\* ------------------------------------------------- status board task
\* update_status_messages: a step runs the task from one await to the
\* next.  tick.guilds is what is left of "for guild in bot.guilds", its
\* head the guild whose await is pending; tick.all_data is the file as the
\* task loaded it when it started.

\* the board text of a guild: no mobs, none tracked, or a line per tracked mob
Content(mobs, now) ==
    IF DOMAIN mobs = {} THEN [kind |-> "no_mobs", lines |-> <<>>]
    ELSE IF \A k \in DOMAIN mobs : ~mobs[k].tracking
    THEN [kind |-> "no_tracking", lines |-> <<>>]
    ELSE [kind |-> "lines",
          lines |-> [k \in { x \in DOMAIN mobs : mobs[x].tracking } |->
                        mob_status_line(k, mobs[k], now)]]

\* the loop from a guild on, up to its next await: guilds without a record
\* or without a status channel are skipped
RECURSIVE Advance(_, _, _)
Advance(all_data, guilds, now) ==
    IF guilds = <<>> THEN IdleTick
    ELSE IF Head(guilds) \notin DOMAIN all_data
    THEN Advance(all_data, Tail(guilds), now)
    ELSE IF IsNone(all_data[Head(guilds)].status_channel_id)
    THEN Advance(all_data, Tail(guilds), now)
    ELSE [pc |-> IF IsNone(all_data[Head(guilds)].status_message_id) THEN "send" ELSE "fetch",
          all_data |-> all_data, guilds |-> guilds, now |-> now,
          content |-> Content(all_data[Head(guilds)].mobs, now)]

\* "continue", or the end of the loop body
NextGuild == tick' = Advance(tick.all_data, Tail(tick.guilds), tick.now)

\* the bot's guilds, in the order of bot.guilds
BotGuilds == <<1, 2>>

\* the task starts: it reads the clock and loads the file
TickStart(now) ==
    /\ tick.pc = "idle"
    /\ At(now)
    /\ tick' = Advance(load_data(store), BotGuilds, now)
    /\ UNCHANGED <<store, reply, ncmd, board, nextMsg, calls>>

\* the message id the task read for the guild it is at
MsgId == Val(tick.all_data[Head(tick.guilds)].status_message_id)

\* channel.fetch_message(msg_id) returns the message
TickFetch ==
    /\ tick.pc = "fetch"
    /\ MsgId \in DOMAIN board[Head(tick.guilds)]
    /\ tick' = [tick EXCEPT !.pc = "edit"]
    /\ UNCHANGED <<store, reply, ncmd, clock, board, nextMsg, calls>>

\* fetch_message or edit raises discord.NotFound: the message is gone
TickNotFound ==
    /\ tick.pc \in {"fetch", "edit"}
    /\ MsgId \notin DOMAIN board[Head(tick.guilds)]
    /\ tick' = [tick EXCEPT !.pc = "resend"]
    /\ UNCHANGED <<store, reply, ncmd, clock, board, nextMsg, calls>>

\* an await of the try block raises discord.Forbidden: "continue"
TickForbidden ==
    /\ tick.pc \in {"fetch", "edit", "send"}
    /\ NextGuild
    /\ UNCHANGED <<store, reply, ncmd, clock, board, nextMsg, calls>>

\* msg.edit(content=content) succeeds
TickEdit ==
    /\ tick.pc = "edit"
    /\ MsgId \in DOMAIN board[Head(tick.guilds)]
    /\ board' = [board EXCEPT ![Head(tick.guilds)] = Put(@, MsgId, tick.content)]
    /\ NextGuild
    /\ UNCHANGED <<store, reply, ncmd, clock, nextMsg, calls>>

\* a fault for the task: the id of the message sent is not kept
SentNotKept(gdata, msg_id) == gdata

\* the block of the guild as the task holds it, with the id of the message
\* just sent
Sent(gdata, msg_id) == [gdata EXCEPT !.status_message_id = Some(msg_id)]

\* channel.send(content) succeeds, in the try block or in the handler of
\* NotFound: the id is put in the block loaded when the task started and
\* update_guild_data writes that block
TickSend ==
    /\ tick.pc \in {"send", "resend"}
    /\ nextMsg <= MaxMsgs
    /\ nextMsg' = nextMsg + 1
    /\ board' = [board EXCEPT ![Head(tick.guilds)] = Put(@, nextMsg, tick.content)]
    /\ store' = update_guild_data(store, Head(tick.guilds),
                                  Sent(tick.all_data[Head(tick.guilds)], nextMsg))
    /\ tick' = Advance([tick.all_data EXCEPT ![Head(tick.guilds)] = Sent(@, nextMsg)],
                       Tail(tick.guilds), tick.now)
    /\ UNCHANGED <<reply, ncmd, clock, calls>>

\* channel.send(content) in the handler of NotFound raises Forbidden: no
\* handler of the same try statement catches it, the task ends
TickFail ==
    /\ tick.pc = "resend"
    /\ tick' = [IdleTick EXCEPT !.pc = "failed"]
    /\ UNCHANGED <<store, reply, ncmd, clock, board, nextMsg, calls>>

\* on_ready after a reconnect: the task is started again if it is not running
on_ready ==
    /\ tick.pc = "failed"
    /\ tick' = IdleTick
    /\ UNCHANGED <<store, reply, ncmd, clock, board, nextMsg, calls>>

\* somebody deletes a message of the status channel
DeleteMessage(gid, msg_id) ==
    /\ msg_id \in DOMAIN board[gid]
    /\ board' = [board EXCEPT ![gid] = Del(@, msg_id)]
    /\ UNCHANGED <<store, reply, ncmd, clock, tick, nextMsg, calls>>

\* ---------------------------------------------------------- specifications

\* Commands of one guild on the three names
Next ==
    Command(1, MaxCmds, Names, NewNames, {TodInput(None, None, Now1)},
            {Window(Some(800), Some(1200))})

Spec == Init /\ [][Next]_vars

\* mobs_data.json after HistoryCap deaths of "abc" recorded one after the
\* other at the clock reading Now1: the history is full, no gap between its
\* entries is usable, so no window is learned
FullHistory ==
    1 :> [DefaultGuild EXCEPT !.mobs =
            abc :> [NewMob(abc, None, None) EXCEPT
                      !.last_death = Some(isoformat(Now1)),
                      !.tod_history = [i \in 1..HistoryCap |-> isoformat(Now1)]]]

\* a death of October 2025 (day 0 is October 31, day -1 October 30), as tod
\* wrote it
Death(d, h) == isoformat([d |-> d, h |-> h, m |-> 12, fold |-> 0])

\* the deaths of "abc" of the last week of October: gaps of 24, 12, 36, 24,
\* 24 and 30 hours
SpacedDeaths ==
    <<Death(-6, 13), Death(-5, 13), Death(-4, 1), Death(-3, 13), Death(-2, 13),
      Death(-1, 13), Death(0, 19)>>

\* mobs_data.json after those deaths were recorded one after the other: the
\* last tod has run the learner on the whole history
SpacedHistory ==
    1 :> [DefaultGuild EXCEPT !.mobs =
            abc :> update_window_from_tod_history(
                       [NewMob(abc, None, None) EXCEPT
                          !.last_death = Some(SpacedDeaths[Len(SpacedDeaths)]),
                          !.tod_history = SpacedDeaths]).mob]

\* the bot on an empty file, on one whose mob has a full TOD history, or on
\* one whose mob has a week of deaths
InitHist ==
    /\ store \in {<<>>, FullHistory, SpacedHistory}
    /\ reply = NoReply
    /\ ncmd = 0
    /\ clock = Now1
    /\ tick = IdleTick
    /\ board = [g \in Guilds |-> <<>>]
    /\ nextMsg = 1
    /\ calls = <<>>

\* Commands on one mob, with the times and the windows that can be typed
NextHist ==
    \/ \E in \in TodInputs :
          Timed(MaxHistCmds, in.now) /\ tod(1, abc, in.date, in.token, in.now)
    \/ Timed(MaxHistCmds, Now2) /\ spawn(1, abc, None, Now2)
    \/ Untimed(MaxHistCmds) /\ undo(1, abc)
    \/ \E w \in Windows : Untimed(MaxHistCmds) /\ setwindow(1, abc, w.min, w.max)
    \/ Untimed(MaxHistCmds) /\ track(1, abc)
    \/ Untimed(MaxHistCmds) /\ untrack(1, abc)
    \/ Untimed(MaxHistCmds) /\ renamemob(1, abc, abc)

SpecHist == InitHist /\ [][NextHist]_vars

\* The status board task beside the commands of two guilds
NextTick ==
    \/ Command(1, MaxTickCmds, {abc}, {xyz}, {TodInput(None, None, Now2)},
               {Window(Some(800), Some(1200))})
    \/ Untimed(MaxTickCmds) /\ setstatuschannel(2, 2)
    \/ Untimed(MaxTickCmds) /\ track(2, abc)
    \/ TickStart(Now2)
    \/ TickFetch
    \/ TickNotFound
    \/ TickForbidden
    \/ TickEdit
    \/ TickSend
    \/ TickFail
    \/ on_ready
    \/ \E gid \in Guilds, msg_id \in 1..MaxMsgs : DeleteMessage(gid, msg_id)

SpecTick == Init /\ [][NextTick]_vars

\* Mobs with names close to one another: a mob is entered as "xyz" and
\* renamed to one of the close names, and mobs are looked up for deletion
NextNames ==
    \/ Untimed(MaxNameCmds) /\ track(1, xyz)
    \/ \E new \in CloseNames : Untimed(MaxNameCmds) /\ renamemob(1, xyz, new)
    \/ \E name \in Lookups : Untimed(MaxNameCmds) /\ deletemob(1, name)

SpecNames == Init /\ [][NextNames]_vars

\* the bot has just started on an empty file on March 9
InitParse ==
    /\ store = <<>>
    /\ reply = NoReply
    /\ ncmd = 0
    /\ clock = Spring0
    /\ tick = IdleTick
    /\ board = [g \in Guilds |-> <<>>]
    /\ nextMsg = 1
    /\ calls = <<>>

\* Deaths and sightings of one mob with a time typed
NextParse ==
    \/ \E in \in ParseInputs :
          Timed(MaxParseCmds, in.now) /\ tod(1, abc, in.date, in.token, in.now)
    \/ \E in \in ParseInputs :
          Timed(MaxParseCmds, in.now) /\ IsNone(in.date) /\ spawn(1, abc, in.token, in.now)

SpecParse == InitParse /\ [][NextParse]_vars

\* ------------------------------------------- handlers running side by side
\* Every message is handled in a task of its own, and a handler runs without
\* interruption from one await to the next.  In each of the nine handlers
\* every await is a ctx.send, and each path has exactly one: either it comes
\* before get_guild_data or is followed by return (no save after it), or it
\* comes after update_guild_data.  So a handler is two steps, the run up to
\* its ctx.send and the delivery of the message.

Cmd(op, name, new) == [op |-> op, name |-> name, new |-> new]

\* the commands typed in guild 1, one of each handler and track on two
\* names; the window typed is 8 12, the channel named is channel 1
ConcCmds ==
    {Cmd("tod", abc, <<>>), Cmd("spawn", abc, <<>>), Cmd("track", abc, <<>>),
     Cmd("track", xyz, <<>>), Cmd("untrack", abc, <<>>), Cmd("deletemob", abc, <<>>),
     Cmd("renamemob", abc, xyz), Cmd("undo", abc, <<>>), Cmd("setwindow", abc, <<>>),
     Cmd("setstatuschannel", <<>>, <<>>)}

\* the tasks of two messages
Tasks == {1, 2}

\* the handler of command c run on the file, from its first line to its
\* ctx.send
Invoke(c, file, now) ==
    CASE c.op = "tod" -> todResult(file, 1, c.name, None, None, now)
      [] c.op = "spawn" -> spawnResult(file, 1, c.name, None, now)
      [] c.op = "track" -> trackResult(file, 1, c.name)
      [] c.op = "untrack" -> untrackResult(file, 1, c.name)
      [] c.op = "deletemob" -> deletemobResult(file, 1, c.name)
      [] c.op = "renamemob" -> renamemobResult(file, 1, c.name, c.new)
      [] c.op = "undo" -> undoResult(file, 1, c.name)
      [] c.op = "setwindow" -> setwindowResult(file, 1, c.name, Some(800), Some(1200))
      [] c.op = "setstatuschannel" -> setstatuschannelResult(file, 1, 1)

\* a fault for a handler: it works on the file as it was when its message
\* arrived
FileAtArrival(call, file) == call.seen

\* the file a handler works on: the one get_guild_data loads when the
\* handler runs
FileLoaded(call, file) == load_data(file)

\* a message with a command arrives and a task is made for it; seen is the
\* file at that moment, kept for the properties only; loaded is the file the
\* handler has loaded
Dispatch(t, c) ==
    /\ t \notin DOMAIN calls
    /\ calls' = Put(calls, t, [cmd |-> c, pc |-> "start", seen |-> store,
                              loaded |-> <<>>, reply |-> NoReply])
    /\ ncmd' = ncmd + 1
    /\ UNCHANGED <<store, reply, clock, tick, board, nextMsg>>

\* the handler of task t runs from its first line to its ctx.send: it reads
\* the clock (tod and spawn), loads, changes and saves
Run(t, now) ==
    /\ t \in DOMAIN calls
    /\ calls[t].pc = "start"
    /\ IF calls[t].cmd.op \in {"tod", "spawn"} THEN At(now) ELSE UNCHANGED clock
    /\ store' = Invoke(calls[t].cmd, FileLoaded(calls[t], store), now).file
    /\ calls' = [calls EXCEPT
                   ![t].pc = "send",
                   ![t].loaded = FileLoaded(calls[t], store),
                   ![t].reply = Invoke(calls[t].cmd, FileLoaded(calls[t], store), now).reply]
    /\ UNCHANGED <<reply, ncmd, tick, board, nextMsg>>

\* ctx.send returns: the handler of task t is over
Deliver(t) ==
    /\ t \in DOMAIN calls
    /\ calls[t].pc = "send"
    /\ reply' = calls[t].reply
    /\ calls' = [calls EXCEPT ![t].pc = "done"]
    /\ UNCHANGED <<store, ncmd, clock, tick, board, nextMsg>>

\* Two commands of guild 1 handled side by side, on an empty file or on one
\* with the mob "abc"
NextConc ==
    \/ \E t \in Tasks, c \in ConcCmds : Dispatch(t, c)
    \/ \E t \in Tasks : Run(t, Now1)
    \/ \E t \in Tasks : Deliver(t)

SpecConc == InitHist /\ [][NextConc]_vars

\* ----------------------------------------------------------- properties

\* the entity map of a guild in a file
MobsOf(file, gid) == IF gid \in DOMAIN file THEN file[gid].mobs ELSE <<>>

\* the mob under a key, as a command that creates it would start it
MobAt(mobs, key) == IF key \in DOMAIN mobs THEN mobs[key] ELSE NewMob(<<>>, None, None)

\* C2: in every reachable state, every mob with both ends of its window set
\* has min_respawn_hours <= max_respawn_hours.
C2_WindowOrdered ==
    \A g \in DOMAIN store : \A k \in DOMAIN store[g].mobs :
        (~IsNone(store[g].mobs[k].min_respawn_hours)
            /\ ~IsNone(store[g].mobs[k].max_respawn_hours))
        => Val(store[g].mobs[k].min_respawn_hours) <= Val(store[g].mobs[k].max_respawn_hours)

\* the window numbers the validation of setwindow is to reject
BadWindow(w) ==
    ~IsNone(w.min) /\ ~IsNone(w.max)
    /\ (Val(w.min) <= 0 \/ Val(w.max) <= 0 \/ Val(w.min) > Val(w.max))

\* C3: setwindow with min_h <= 0, max_h <= 0 or min_h > max_h is rejected
\* and leaves the entity map of the guild unchanged.
C3_SetwindowValidates ==
    [][reply'.cmd = "setwindow" =>
        \A w \in Windows :
            BadWindow(w) =>
                (setwindow(1, abc, w.min, w.max)
                    => (reply'.kind # "set" /\ MobsOf(store', 1) = MobsOf(store, 1)))]_vars

\* a history in ascending order of its timestamps
Chronological(h) == \A i, j \in 1..Len(h) : i < j => Instant(h[i]) <= Instant(h[j])

\* C4: in every reachable state, every tod_history has at most 10 entries
\* and is sorted ascending by timestamp.
C4_HistorySorted ==
    \A g \in DOMAIN store : \A k \in DOMAIN store[g].mobs :
        /\ Len(store[g].mobs[k].tod_history) <= HistoryCap
        /\ Chronological(store[g].mobs[k].tod_history)

\* the Window Learner's output for a history
LearnerOutput(history) ==
    update_window_from_tod_history([NewMob(<<>>, None, None) EXCEPT !.tod_history = history])

\* the handler has changed the history of "abc": a death recorded, a TOD removed
HistoryMutated ==
    \/ reply'.cmd = "tod" /\ reply'.kind \in {"recorded", "recorded_learned"}
    \/ reply'.cmd = "undo" /\ reply'.kind \in {"removed_relearned", "removed_cleared"}

\* the stored window and confidence are the learner's output out
StoresOutput(mob, out) ==
    /\ mob.min_respawn_hours = out.min_h
    /\ mob.max_respawn_hours = out.max_h
    /\ mob.learned_confidence = out.conf

\* C5 as stated: after every history mutation the stored window and
\* confidence equal the learner's output for the resulting history, a
\* (None, None, LOW) output included.
C5_OutputReplaces ==
    [][HistoryMutated =>
        StoresOutput(store'[1].mobs[abc],
                     LearnerOutput(store'[1].mobs[abc].tod_history))]_vars

\* what a history mutation leaves in the mob: the confidence is the
\* learner's; the window is the learner's when it computes one; when it
\* computes none the window is the one from before, except that undo down
\* to fewer than 2 entries clears it
StoresLearned(before, after, out, cleared) ==
    /\ after.learned_confidence = out.conf
    /\ ~IsNone(out.min_h) =>
          after.min_respawn_hours = out.min_h /\ after.max_respawn_hours = out.max_h
    /\ (IsNone(out.min_h) /\ ~cleared) =>
          /\ after.min_respawn_hours = before.min_respawn_hours
          /\ after.max_respawn_hours = before.max_respawn_hours
    /\ cleared =>
          /\ IsNone(after.min_respawn_hours) /\ IsNone(after.max_respawn_hours)
          /\ after.learned_confidence = "LOW"

\* C5, amended: after every history mutation the confidence is the
\* learner's output for the resulting history and so is the window when the
\* learner computes one; when it computes none, the window from before the
\* mutation stays, unless undo left fewer than 2 entries, which clears it.
C5_LearnedReplaces ==
    [][HistoryMutated =>
        StoresLearned(MobAt(MobsOf(store, 1), abc), store'[1].mobs[abc],
                      LearnerOutput(store'[1].mobs[abc].tod_history),
                      reply'.cmd = "undo" /\ Len(store'[1].mobs[abc].tod_history) < 2)]_vars

\* a window set by hand is still there after a death is recorded although
\* the learner computes none from the one-entry history
C5_Witness ==
    /\ reply.cmd = "tod" /\ reply.kind = "recorded"
    /\ Len(store[1].mobs[abc].tod_history) = 1
    /\ store[1].mobs[abc].min_respawn_hours = Some(800)

\* h without its i-th entry
Without(h, i) == SubSeq(h, 1, i - 1) \o SubSeq(h, i + 1, Len(h))

\* h2 is h with one entry of the greatest timestamp removed
LatestRemoved(h, h2) ==
    \E i \in 1..Len(h) :
        /\ \A j \in 1..Len(h) : Instant(h[j]) <= Instant(h[i])
        /\ h2 = Without(h, i)

\* C6: undo on a non-empty history removes exactly the entry of the
\* greatest timestamp; with fewer than 2 entries left the window is cleared
\* and the confidence is LOW, else the learner is run again.
C6_UndoRemovesLatest ==
    [][(reply'.cmd = "undo" /\ reply'.kind \in {"removed_relearned", "removed_cleared"}) =>
        /\ LatestRemoved(store[1].mobs[abc].tod_history, store'[1].mobs[abc].tod_history)
        /\ StoresLearned(store[1].mobs[abc], store'[1].mobs[abc],
                         LearnerOutput(store'[1].mobs[abc].tod_history),
                         Len(store'[1].mobs[abc].tod_history) < 2)]_vars

\* the timestamp tod records for what was typed
TodTime(in) ==
    isoformat(IF IsNone(in.token) THEN in.now
              ELSE parse_time_str(Val(in.token), in.date, in.now).dt)

\* the 10 greatest of the timestamps h, in ascending order
TenGreatest(h) ==
    SubSeq(SortSeq(h, InstantLess),
           IF Len(h) > HistoryCap THEN Len(h) - HistoryCap + 1 ELSE 1, Len(h))

\* C7: tod with timestamp t on history H sets last_death to t and
\* tod_history to the 10 greatest elements of sorted(H plus t): H itself when
\* H holds 10 entries all later than t.
C7_TodKeepsGreatest ==
    [][(reply'.cmd = "tod" /\ reply'.kind \in {"recorded", "recorded_learned"}) =>
        \A in \in TodInputs :
            tod(1, abc, in.date, in.token, in.now) =>
                /\ store'[1].mobs[abc].last_death = Some(TodTime(in))
                /\ store'[1].mobs[abc].tod_history =
                       TenGreatest(Append(MobAt(MobsOf(store, 1), abc).tod_history,
                                          TodTime(in)))
                /\ (/\ Len(MobAt(MobsOf(store, 1), abc).tod_history) = HistoryCap
                    /\ \A i \in 1..HistoryCap :
                          Instant(TodTime(in)) < Instant(store[1].mobs[abc].tod_history[i]))
                   => store'[1].mobs[abc].tod_history = store[1].mobs[abc].tod_history]_vars

\* the times a status line is asked for: 09:00, 09:12, 11:12, 13:12 and
\* 13:24 EST of November 2
StatusNows ==
    {[d |-> 2, h |-> 9, m |-> 0, fold |-> 0], [d |-> 2, h |-> 9, m |-> 12, fold |-> 0],
     [d |-> 2, h |-> 11, m |-> 12, fold |-> 0], Now2,
     [d |-> 2, h |-> 13, m |-> 24, fold |-> 0]}

\* the three cases of a window [min, max] after reference r at time now,
\* in seconds
Classified(kind, now, r, min_h, max_h) ==
    /\ kind = "CLOSED" <=> now < r + min_h
    /\ kind = "OPEN" <=> (r + min_h <= now /\ now <= r + max_h)
    /\ kind = "OVERDUE" <=> now > r + max_h

\* C8: for every tracked mob with a window and a reference R and for every
\* now, the status line is CLOSED iff now < R+min, OPEN iff
\* R+min <= now <= R+max, OVERDUE iff now > R+max.
C8_StatusClassified ==
    \A k \in DOMAIN MobsOf(store, 1) : \A now \in StatusNows :
        (/\ store[1].mobs[k].tracking
         /\ ~IsNone(store[1].mobs[k].min_respawn_hours)
         /\ ~IsNone(store[1].mobs[k].max_respawn_hours)
         /\ ~IsNone(BaseTime(store[1].mobs[k])))
        => Classified(mob_status_line(k, store[1].mobs[k], now).kind,
                      Instant(isoformat(now)) * 60,
                      Instant(Val(BaseTime(store[1].mobs[k]))) * 60,
                      Val(store[1].mobs[k].min_respawn_hours) * 36,
                      Val(store[1].mobs[k].max_respawn_hours) * 36)

\* the mob of the old name, moved to the key of the new name with the new
\* name as display_name, beside the other mobs as they were
Renamed(mobs, old_key, new_key, new_name) ==
    [k \in (DOMAIN mobs \ {old_key}) \cup {new_key} |->
        IF k = new_key THEN [mobs[old_key] EXCEPT !.display_name = new_name] ELSE mobs[k]]

\* what renamemob is to do with the mob old_key and the new name
RenameOutcome(mobs, mobs2, old_key, new_key, new_name) ==
    IF new_key \in DOMAIN mobs /\ new_key # old_key
    THEN reply'.kind = "exists" /\ mobs2 = mobs
    ELSE /\ reply'.kind = "renamed"
         /\ mobs2 = Renamed(mobs, old_key, new_key, new_name)
         /\ Cardinality(DOMAIN mobs2) = Cardinality(DOMAIN mobs)
         /\ (new_key = old_key => DOMAIN mobs2 = DOMAIN mobs)

\* the old name names a mob: its key, or one close key
NamesMob(r, mobs) == ~r.ambiguous /\ r.key \in DOMAIN mobs

\* C9: renamemob fails with the entity map unchanged when the normalized new
\* name is the key of another mob; otherwise the mob moves to the new key
\* with display_name the new name and its other fields unchanged, the number
\* of mobs is unchanged, and a case/whitespace variant of its own key leaves
\* the key unchanged.
C9_Rename ==
    [][reply'.cmd = "renamemob" =>
        \A old \in Names, new \in NewNames :
            NamesMob(Resolve(old, MobsOf(store, 1)), MobsOf(store, 1)) =>
                (renamemob(1, old, new) =>
                    RenameOutcome(MobsOf(store, 1), MobsOf(store', 1),
                                  Resolve(old, MobsOf(store, 1)).key,
                                  normalize_mob_name(new), Strip(new)))]_vars

\* "abc" has been renamed to a variant of its own key and is still under it
C9_Witness ==
    /\ reply.cmd = "renamemob" /\ reply.kind = "renamed"
    /\ abc \in DOMAIN MobsOf(store, 1)
    /\ store[1].mobs[abc].display_name = <<"A", "b", "c">>
    /\ ~store[1].mobs[abc].tracking

\* the keys a name is close to: ratio at least the cutoff
CloseKeys(key, mobs) ==
    { k \in DOMAIN mobs : Ratio(k, key)[1] * CutoffDen >= CutoffNum * Ratio(k, key)[2] }

\* name resolution returns Ambiguous: no exact key, 2 or more candidates
NameAmbiguous(name, mobs) ==
    /\ normalize_mob_name(name) \notin DOMAIN mobs
    /\ Cardinality(CloseKeys(normalize_mob_name(name), mobs)) >= 2

\* the command cmd has run on the name
Ran(cmd, name) ==
    \/ cmd = "tod" /\ tod(1, name, None, None, Now1)
    \/ cmd = "spawn" /\ spawn(1, name, None, Now1)
    \/ cmd = "track" /\ track(1, name)
    \/ cmd = "untrack" /\ untrack(1, name)
    \/ cmd = "deletemob" /\ deletemob(1, name)
    \/ cmd = "renamemob" /\ \E new \in NewNames : renamemob(1, name, new)
    \/ cmd = "undo" /\ undo(1, name)
    \/ cmd = "setwindow" /\ setwindow(1, name, Some(800), Some(1200))

\* C10: when name resolution returns Ambiguous, each of tod, spawn, track,
\* untrack, deletemob, renamemob, undo and setwindow aborts and leaves the
\* entity map of the guild as it was.
C10_AmbiguousAborts ==
    [][\A name \in Names :
        NameAmbiguous(name, MobsOf(store, 1)) =>
            (Ran(reply'.cmd, name) =>
                (reply'.kind = "ambiguous" /\ MobsOf(store', 1) = MobsOf(store, 1)))]_vars

\* a command on "abe" has been answered with the two candidates, both still
\* there
C10_Witness ==
    /\ reply.cmd = "deletemob" /\ reply.kind = "ambiguous"
    /\ Len(reply.names) = 2
    /\ DOMAIN MobsOf(store, 1) = {abc, ade}

\* a send of the status board task has succeeded: it writes the file
TickWrites == tick.pc \in {"send", "resend"} /\ nextMsg' = nextMsg + 1

\* C1: what a command has persisted to a guild's record is still in the
\* record after the task writes status_message_id back: the write changes
\* nothing but that field.
C1_NoLostUpdate ==
    [][TickWrites =>
        \A g \in DOMAIN store :
            /\ store'[g].mobs = store[g].mobs
            /\ store'[g].status_channel_id = store[g].status_channel_id]_vars

\* name resolution returns NotFound: no exact key and no candidate
NameNotFound(name, mobs) ==
    /\ normalize_mob_name(name) \notin DOMAIN mobs
    /\ CloseKeys(normalize_mob_name(name), mobs) = {}

\* the name names a mob whose TOD history is empty
NamesEmptyHistory(r, mobs) == NamesMob(r, mobs) /\ mobs[r.key].tod_history = <<>>

\* C11: untrack, deletemob, undo and renamemob on a name that resolves to
\* NotFound report an error, create no mob and leave the entity map of the
\* guild unchanged; undo on a mob with an empty history changes nothing
\* either.
C11_NotFoundNoMutation ==
    [][reply'.cmd \in {"untrack", "deletemob", "undo", "renamemob"} =>
        \A name \in Names :
            Ran(reply'.cmd, name) =>
                /\ NameNotFound(name, MobsOf(store, 1)) =>
                      (reply'.kind = "not_found" /\ MobsOf(store', 1) = MobsOf(store, 1))
                /\ (/\ reply'.cmd = "undo"
                    /\ NamesEmptyHistory(Resolve(name, MobsOf(store, 1)), MobsOf(store, 1)))
                   => (reply'.kind = "no_history" /\ MobsOf(store', 1) = MobsOf(store, 1))]_vars

\* untrack of a name that is close to no mob of a guild that has one has
\* been answered "not found", and the guild has that one mob still
C11_Witness ==
    /\ reply.cmd = "untrack" /\ reply.kind = "not_found"
    /\ Cardinality(DOMAIN MobsOf(store, 1)) = 1

\* undo of a mob without TOD history has been answered, the mob is there
C11_WitnessEmpty ==
    /\ reply.cmd = "undo" /\ reply.kind = "no_history"
    /\ DOMAIN MobsOf(store, 1) # {}

\* the guilds of a list that the task processes: a record and a status
\* channel in the file it loaded
WithChannel(all_data, guilds) ==
    SelectSeq(guilds, LAMBDA g : g \in DOMAIN all_data
                                 /\ ~IsNone(all_data[g].status_channel_id))

\* the task is in the loop body of a guild, at one of its awaits
InGuild == tick.pc \in {"fetch", "edit", "send", "resend"}

\* C12: within one tick, when the task is done with a guild, by success or
\* by a failure to reach its status destination (NotFound, Forbidden on edit
\* or send, Forbidden on the send that follows NotFound), it goes on with
\* the next guild that has a status channel, and when there is none it is
\* idle until it is run again at the next tick.
C12_FailureSwallowed ==
    [][(InGuild /\ tick'.guilds # tick.guilds) =>
        IF WithChannel(tick.all_data, Tail(tick.guilds)) # <<>>
        THEN /\ tick'.pc \in {"fetch", "send"}
             /\ Head(tick'.guilds) = Head(WithChannel(tick.all_data, Tail(tick.guilds)))
        ELSE tick'.pc = "idle"]_vars

\* the step is a successful send of the task, a successful edit
TickSends == InGuild /\ nextMsg' = nextMsg + 1
TickEdits == InGuild /\ tick' # tick /\ board' # board /\ nextMsg' = nextMsg

\* the message id the task has read for its guild is set and the message is
\* in the channel
Resolvable ==
    /\ ~IsNone(tick.all_data[Head(tick.guilds)].status_message_id)
    /\ MsgId \in DOMAIN board[Head(tick.guilds)]

\* C13: in a tick, for a guild with a status channel, a Discord call that is
\* not refused does this: when status_message_id is set and the message is
\* resolvable the message is edited, no message is sent and the file is not
\* written; otherwise exactly one new message is sent and its id is
\* persisted as the guild's status_message_id, so that the following tick
\* fetches that message to edit it instead of sending another.
C13_EditOrSend ==
    [][/\ TickEdits =>
            /\ Resolvable
            /\ board' = [board EXCEPT ![Head(tick.guilds)] = Put(@, MsgId, tick.content)]
            /\ DOMAIN board'[Head(tick.guilds)] = DOMAIN board[Head(tick.guilds)]
            /\ store' = store
       /\ TickSends =>
            /\ ~Resolvable
            /\ nextMsg \notin DOMAIN board[Head(tick.guilds)]
            /\ board' = [board EXCEPT ![Head(tick.guilds)] = Put(@, nextMsg, tick.content)]
            /\ store'[Head(tick.guilds)].status_message_id = Some(nextMsg)
            /\ Advance(load_data(store'), <<Head(tick.guilds)>>, tick.now).pc = "fetch"
       /\ (InGuild /\ Resolvable /\ tick' # tick) => nextMsg' = nextMsg]_vars

\* one message was sent for guild 1 and its id persisted; a later tick has
\* read the id, has fetched that message and is at its edit, and no second
\* message was sent
C13_Witness ==
    /\ tick.pc = "edit" /\ Head(tick.guilds) = 1
    /\ tick.all_data[1].status_message_id = Some(1)
    /\ 1 \in DOMAIN store /\ store[1].status_message_id = Some(1)
    /\ DOMAIN board[1] = {1}
    /\ nextMsg = 2

\* the durations, in seconds, between the times a status line is asked for
\* and the two ends of the window of a mob
WindowDeltas(mob_data) ==
    IF \/ IsNone(mob_data.min_respawn_hours) \/ IsNone(mob_data.max_respawn_hours)
       \/ IsNone(BaseTime(mob_data))
    THEN {}
    ELSE { Instant(isoformat(now)) * 60 - Instant(Val(BaseTime(mob_data))) * 60 - w * 36 :
               now \in StatusNows,
               w \in {Val(mob_data.min_respawn_hours), Val(mob_data.max_respawn_hours)} }

\* the text has a part of the unit u
HasPart(parts, u) == \E i \in 1..Len(parts) : parts[i].u = u

\* the size of a duration
Abs(delta) == IF delta < 0 THEN -delta ELSE delta

\* C14: format_timedelta always shows a minutes part, 0m when the minute
\* remainder is zero, exact multiples of an hour included, and shows the
\* hours part iff the duration is at least one hour.
C14_MinutesShown ==
    \A k \in DOMAIN MobsOf(store, 1) : \A delta \in WindowDeltas(store[1].mobs[k]) :
        /\ HasPart(format_timedelta(delta), "m")
        /\ HasPart(format_timedelta(delta), "h") <=> Abs(delta) >= 3600

\* the list is made of distinct candidates, the best first
RankedCandidates(close, key, cand) ==
    /\ \A i \in 1..Len(close) : close[i] \in cand
    /\ \A i, j \in 1..Len(close) : i < j =>
          /\ close[i] # close[j]
          /\ ~RatioLess(Ratio(close[i], key), Ratio(close[j], key))

\* what name resolution is to return for a normalized name, given the
\* candidates: the keys at or above the cutoff
Resolution(r, key, mobs, cand) ==
    IF key \in DOMAIN mobs THEN r.kind = "str" /\ r.key = key
    ELSE IF cand = {} THEN r.kind = "none"
    ELSE IF Cardinality(cand) = 1 THEN r.kind = "str" /\ r.key \in cand
    ELSE /\ r.kind = "list"
         /\ Len(r.close) \in 2..3
         /\ RankedCandidates(r.close, key, cand)

\* C15: fuzzy_find_mob returns the normalized input whenever it is a key of
\* the guild, whatever candidates there are; otherwise NotFound for no
\* candidate, the candidate for exactly one, and for two or more a list of 2
\* to 3 existing keys.
C15_Resolution ==
    \A name \in Lookups :
        Resolution(fuzzy_find_mob(name, MobsOf(store, 1)), normalize_mob_name(name),
                   MobsOf(store, 1), CloseKeys(normalize_mob_name(name), MobsOf(store, 1)))

\* a lookup of "aby" among four keys close to it has been answered with
\* three candidates
C15_Witness ==
    /\ reply.cmd = "deletemob" /\ reply.kind = "ambiguous"
    /\ Len(reply.names) = 3
    /\ CloseNames \subseteq DOMAIN MobsOf(store, 1)

\* the gaps of more than 0.25 h between consecutive timestamps of a history
\* put in order of time, counted before any trimming
GapCount(times) ==
    Cardinality({ i \in 1..(Len(times) - 1) :
                    (Instant(times[i + 1]) - Instant(times[i])) * 100 > 25 * 60 })

\* the confidence a history gives
DerivedConfidence(history) ==
    IF Len(history) < 2 \/ GapCount(SortSeq(history, InstantLess)) < 3 THEN "LOW"
    ELSE IF GapCount(SortSeq(history, InstantLess)) <= 5 THEN "MEDIUM"
    ELSE "HIGH"

\* C16: in every reachable state the learned_confidence of every mob is the
\* confidence its current tod_history gives: LOW for fewer than 2 entries or
\* fewer than 3 usable gaps, MEDIUM for 3 to 5, HIGH for 6 or more, counted
\* before the trimming; setwindow, spawn, track, untrack and renamemob do
\* not make it stale.
C16_ConfidenceFresh ==
    \A g \in DOMAIN store : \A k \in DOMAIN store[g].mobs :
        store[g].mobs[k].learned_confidence = DerivedConfidence(store[g].mobs[k].tod_history)

\* setwindow has run on a mob of 6 usable gaps: its confidence is HIGH still
C16_Witness ==
    /\ reply.cmd = "setwindow" /\ reply.kind = "set"
    /\ abc \in DOMAIN MobsOf(store, 1)
    /\ store[1].mobs[abc].learned_confidence = "HIGH"
    /\ store[1].mobs[abc].min_respawn_hours = Some(800)

\* the gaps, in minutes, between consecutive timestamps of a history put in
\* order of time
GapsOf(times) == [i \in 1..(Len(times) - 1) |-> Instant(times[i + 1]) - Instant(times[i])]

\* the gaps of more than 0.25 h, the smallest first
SortedUsable(history) ==
    SortSeq(SelectSeq(GapsOf(SortSeq(history, InstantLess)),
                      LAMBDA gap : gap * 100 > 25 * 60), IntLess)

\* the gaps without the single smallest and the single largest, dropped iff
\* there are 4 or more
Remaining(gaps) == IF Len(gaps) >= 4 THEN SubSeq(gaps, 2, Len(gaps) - 1) ELSE gaps

\* v hundredths of an hour is pct percent of gap minutes, rounded to 2
\* decimals of an hour
IsRounded(v, gap, pct) == 2 * Abs(v * 60 - gap * pct) <= 60

\* the window out is the one of the remaining gaps
WindowOf(out, remaining) ==
    /\ ~IsNone(out.min_h) /\ ~IsNone(out.max_h)
    /\ IsRounded(Val(out.min_h), remaining[1], 95)
    /\ IsRounded(Val(out.max_h), remaining[Len(remaining)], 105)
    /\ Val(out.min_h) <= Val(out.max_h)

\* what the learner is to return for a history
LearnerResult(out, history) ==
    IF Len(history) < 2 \/ SortedUsable(history) = <<>>
    THEN IsNone(out.min_h) /\ IsNone(out.max_h) /\ out.conf = "LOW"
    ELSE WindowOf(out, Remaining(SortedUsable(history)))

\* the history [02:00, 14:00] of one day
TwoDeaths ==
    <<isoformat([d |-> 1, h |-> 2, m |-> 0, fold |-> 0]),
      isoformat([d |-> 1, h |-> 14, m |-> 0, fold |-> 0])>>

\* C17: the learner returns (None, None, LOW) for a history of fewer than 2
\* entries or without a gap of more than 0.25 h; otherwise it drops the
\* single smallest and the single largest usable gap iff there are 4 or
\* more, and returns min = 0.95 * the smallest and max = 1.05 * the largest
\* remaining gap, rounded to 2 decimals, min <= max; [02:00, 14:00] gives
\* 11.4, 12.6 and LOW.
C17_LearnerResult ==
    /\ \A k \in DOMAIN MobsOf(store, 1) :
          LearnerResult(LearnerOutput(store[1].mobs[k].tod_history),
                        store[1].mobs[k].tod_history)
    /\ LearnerOutput(TwoDeaths).min_h = Some(1140)
    /\ LearnerOutput(TwoDeaths).max_h = Some(1260)
    /\ LearnerOutput(TwoDeaths).conf = "LOW"

\* a death has been recorded after the week of deaths: 7 usable gaps, the
\* window learned is the one of the 5 that remain
C17_Witness ==
    /\ reply.cmd = "tod" /\ reply.kind = "recorded_learned"
    /\ abc \in DOMAIN MobsOf(store, 1)
    /\ Len(SortedUsable(store[1].mobs[abc].tod_history)) = 7
    /\ store[1].mobs[abc].min_respawn_hours = Some(2280)
    /\ store[1].mobs[abc].max_respawn_hours = Some(3255)

\* the timestamp t is the clock time hour:minute of day d
ClockTimeOn(t, d, hour, minute) == t.d = d /\ t.h = hour /\ t.m = minute

\* the timestamp t is the most recent hour:minute at now: not after now,
\* today's when that is not after now on the clock, else yesterday's
MostRecent(t, hour, minute, now) ==
    /\ Instant(t) <= Instant(isoformat(now))
    /\ IF WallLess(now, [d |-> now.d, h |-> hour, m |-> minute])
       THEN ClockTimeOn(t, now.d - 1, hour, minute)
       ELSE ClockTimeOn(t, now.d, hour, minute)

\* the hour and the minute of a token of four digits
HourOf(token) == DigitVal(token[1]) * 10 + DigitVal(token[2])
MinuteOf(token) == DigitVal(token[3]) * 10 + DigitVal(token[4])

\* C18: parse_time_str without a date returns, for every valid clock time
\* and every now, a timestamp that is not after now and less than one
\* calendar day before it (today's occurrence if it is not after now, else
\* yesterday's); with a date it returns that date at that clock time, not
\* rolled back, also when that is in the future.
C18_MostRecent ==
    [][reply'.cmd = "tod" =>
        \A in \in ParseInputs :
            tod(1, abc, in.date, in.token, in.now) =>
                /\ reply'.kind \in {"recorded", "recorded_learned"}
                /\ IF IsNone(in.date)
                   THEN MostRecent(Val(store'[1].mobs[abc].last_death),
                                   HourOf(Val(in.token)), MinuteOf(Val(in.token)), in.now)
                   ELSE ClockTimeOn(Val(store'[1].mobs[abc].last_death), Val(in.date),
                                    HourOf(Val(in.token)), MinuteOf(Val(in.token)))]_vars

\* a key of guild g is gone after the step; the guild has fewer mobs
KeyGone(g) == DOMAIN MobsOf(store, g) \ DOMAIN MobsOf(store', g) # {}
FewerMobs(g) ==
    Cardinality(DOMAIN MobsOf(store', g)) < Cardinality(DOMAIN MobsOf(store, g))

\* the step is the command cmd answered kind
Answered(cmd, kind) == ncmd' = ncmd + 1 /\ reply'.cmd = cmd /\ reply'.kind = kind

\* C19: a mob leaves the entity map of a guild only by a deletemob step:
\* tod, spawn, track, untrack, setwindow and undo remove none, renamemob
\* moves it to another key, and the number of mobs of the guild decreases
\* only on deletemob.
C19_OnlyDeleteRemoves ==
    [][\A g \in Guilds :
        /\ FewerMobs(g) => Answered("deletemob", "deleted")
        /\ KeyGone(g) =>
              \/ Answered("deletemob", "deleted")
              \/ Answered("renamemob", "renamed") /\ ~FewerMobs(g)]_vars

\* every mob of the guild is there after the step as it was, but for the
\* fields given
SameBut(mobs, mobs2, fields) ==
    \A k \in DOMAIN mobs :
        /\ k \in DOMAIN mobs2
        /\ \A f \in DOMAIN mobs[k] \ fields : mobs2[k][f] = mobs[k][f]

\* the mobs the step has changed have tracking on, or off
ChangedTrack(mobs, mobs2, on) ==
    \A k \in DOMAIN mobs : mobs2[k] # mobs[k] => mobs2[k].tracking = on

\* C20: on a mob that exists, spawn changes only last_spawn and
\* display_name, track only tracking (to on) and display_name, untrack only
\* tracking (to off): tod_history, min_respawn_hours, max_respawn_hours,
\* learned_confidence and last_death of every mob stay, so untrack followed
\* by track restores the window, the history and the references.
C20_Frame ==
    [][/\ Answered("spawn", "recorded") =>
            SameBut(MobsOf(store, 1), MobsOf(store', 1), {"last_spawn", "display_name"})
       /\ Answered("track", "enabled") =>
            /\ SameBut(MobsOf(store, 1), MobsOf(store', 1), {"tracking", "display_name"})
            /\ ChangedTrack(MobsOf(store, 1), MobsOf(store', 1), TRUE)
       /\ Answered("untrack", "disabled") =>
            /\ SameBut(MobsOf(store, 1), MobsOf(store', 1), {"tracking"})
            /\ ChangedTrack(MobsOf(store, 1), MobsOf(store', 1), FALSE)]_vars

\* two commands on the mob with a week of deaths, the second one track: the
\* mob is as it was, its window of 22.8 to 31.5 hours and its 7 deaths
C20_Witness ==
    /\ ncmd = 2
    /\ reply.cmd = "track" /\ reply.kind = "enabled"
    /\ store = SpacedHistory

\* the status of a mob at a time now: which line, and the duration it shows
StatusAt(k, mob_data, now) ==
    [kind |-> mob_status_line(k, mob_data, now).kind,
     delta |-> mob_status_line(k, mob_data, now).delta]

\* the mob with no sighting; the mob whose sighting was a death instead
NoSpawn(mob_data) == [mob_data EXCEPT !.last_spawn = None]
SpawnAsDeath(mob_data) ==
    [mob_data EXCEPT !.last_death = mob_data.last_spawn, !.last_spawn = None]

HasWindow(mob_data) ==
    ~IsNone(mob_data.min_respawn_hours) /\ ~IsNone(mob_data.max_respawn_hours)

\* the reference of the status of a mob is last_death when it is set and
\* last_spawn when it is not, and the line is chosen in the order tracking
\* OFF, no window, no reference
ReferenceRule(k, mob_data, now) ==
    /\ ~IsNone(mob_data.last_death) =>
          StatusAt(k, mob_data, now) = StatusAt(k, NoSpawn(mob_data), now)
    /\ IsNone(mob_data.last_death) =>
          StatusAt(k, mob_data, now) = StatusAt(k, SpawnAsDeath(mob_data), now)
    /\ ~mob_data.tracking => StatusAt(k, mob_data, now).kind = "OFF"
    /\ (mob_data.tracking /\ ~HasWindow(mob_data)) =>
          StatusAt(k, mob_data, now).kind = "NO_WINDOW"
    /\ (mob_data.tracking /\ HasWindow(mob_data)) =>
          /\ StatusAt(k, mob_data, now).kind = "NO_REFERENCE"
                <=> (IsNone(mob_data.last_death) /\ IsNone(mob_data.last_spawn))
          /\ StatusAt(k, mob_data, now).kind
                \in {"NO_REFERENCE", "CLOSED", "OPEN", "OVERDUE"}

\* spawn on a mob whose death is on record leaves its status at every time
\* as it was
SpawnKeepsStatus ==
    Answered("spawn", "recorded") =>
        \A k \in DOMAIN MobsOf(store, 1) :
            ~IsNone(store[1].mobs[k].last_death) =>
                \A now \in StatusNows :
                    StatusAt(k, store'[1].mobs[k], now) = StatusAt(k, store[1].mobs[k], now)

\* C21: the reference of the status is last_death whenever it is set and
\* last_spawn only when last_death is absent; once a death is on record,
\* recording a sighting changes neither the line (CLOSED, OPEN, OVERDUE) nor
\* the duration it shows at any time now; the line is chosen in the order
\* tracking OFF, no window, no reference.
C21_DeathFirst ==
    /\ [](\A k \in DOMAIN MobsOf(store, 1) : \A now \in StatusNows :
             ReferenceRule(k, store[1].mobs[k], now))
    /\ [][SpawnKeepsStatus]_vars

\* a sighting of 13:12 EST of November 2 recorded for the tracked mob whose
\* last death is of October 31 and whose window is 22.8 to 31.5 hours: the
\* window is overdue at 09:00 of November 2, counted from the death
C21_Witness ==
    /\ reply.cmd = "spawn" /\ reply.kind = "recorded"
    /\ 1 \in DOMAIN store /\ abc \in DOMAIN MobsOf(store, 1)
    /\ store[1].mobs[abc].tracking
    /\ store[1].mobs[abc].last_death = Some(SpacedDeaths[Len(SpacedDeaths)])
    /\ store[1].mobs[abc].last_spawn = Some(isoformat(Now2))
    /\ store[1].mobs[abc].min_respawn_hours = Some(2280)
    /\ StatusAt(abc, store[1].mobs[abc], [d |-> 2, h |-> 9, m |-> 0, fold |-> 0]).kind
          = "OVERDUE"

\* the handler of task t has run in the step
HasRun(t) ==
    /\ t \in DOMAIN calls /\ t \in DOMAIN calls'
    /\ calls[t].pc = "start" /\ calls'[t].pc = "send"

\* the two handlers have run
BothRan ==
    /\ DOMAIN calls = Tasks
    /\ \A t \in Tasks : calls[t].pc \in {"send", "done"}

\* the file is what the command of u leaves on what the command of t left
\* on the file t loaded
Serial(t, u) ==
    /\ calls[u].loaded = Invoke(calls[t].cmd, calls[t].loaded, Now1).file
    /\ store = Invoke(calls[u].cmd, calls[u].loaded, Now1).file

\* the file changes only in the run of a handler, which leaves what its
\* command makes of the file as it is at that step
AtomicRun ==
    store' # store =>
        \E t \in Tasks : HasRun(t) /\ store' = Invoke(calls[t].cmd, store, Now1).file

\* C22: two handlers running side by side on one guild do not lose each
\* other's update: no handler is suspended between its load and its save, so
\* the file changes only in the one step a handler runs in, from the file as
\* it is then, and when both have run the file is what the two commands make
\* of it one after the other, in one of the two orders.
C22_SerialOrder ==
    /\ [](BothRan => (Serial(1, 2) \/ Serial(2, 1)))
    /\ [][AtomicRun]_vars

\* "!track abc" and "!track xyz" arrived on the same file with neither mob,
\* both handlers have run and neither is over: the file has both mobs
C22_Witness ==
    /\ DOMAIN calls = Tasks
    /\ \A t \in Tasks : calls[t].pc = "send"
    /\ calls[1].seen = calls[2].seen
    /\ {calls[1].cmd, calls[2].cmd} = {Cmd("track", abc, <<>>), Cmd("track", xyz, <<>>)}
    /\ DOMAIN MobsOf(calls[1].seen, 1) = {}
    /\ DOMAIN MobsOf(store, 1) = {abc, xyz}

\* the record of a guild in a file, if any
Rec(file, g) == IF g \in DOMAIN file THEN <<file[g]>> ELSE <<>>

\* the step is a command typed in guild g
CommandOf(g) ==
    IF g = 1
    THEN Command(1, MaxTickCmds, {abc}, {xyz}, {TodInput(None, None, Now2)},
                 {Window(Some(800), Some(1200))})
    ELSE \/ Untimed(MaxTickCmds) /\ setstatuschannel(g, g)
         \/ Untimed(MaxTickCmds) /\ track(g, abc)

\* the step is the write-back of the status board task for guild g
WriteBackOf(g) ==
    /\ tick.pc \in {"send", "resend"}
    /\ Head(tick.guilds) = g
    /\ nextMsg' = nextMsg + 1

\* C23: with a readable file, a command handler or a write-back of the
\* status board task for guild A leaves the record of every other guild B
\* in the file as it was, whatever ran in between: the record of a guild
\* changes only in a command of that guild or in the task's write-back for
\* that guild.
C23_GuildsIsolated ==
    [][\A A \in Guilds :
        /\ (CommandOf(A) \/ WriteBackOf(A)) =>
              \A B \in Guilds \ {A} : Rec(store', B) = Rec(store, B)
        /\ Rec(store', A) # Rec(store, A) => (CommandOf(A) \/ WriteBackOf(A))]_vars

\* the task loaded the file when guild 2 had no mob, "!track abc" was
\* handled in guild 2 while the task was sending for guild 1, and the task
\* has written the message id of guild 1: the mob of guild 2 is in the file
C23_Witness ==
    /\ tick.pc = "send"
    /\ Head(tick.guilds) = 2
    /\ DOMAIN tick.all_data[2].mobs = {}
    /\ DOMAIN store = {1, 2}
    /\ DOMAIN store[2].mobs = {abc}
    /\ store[1].status_message_id = Some(1)
    /\ tick.all_data[1].status_message_id = Some(1)

====
